---- MODULE Spec2Model ----
(***************************************************************************)
(* Request handling and result sanitization of the Financial Engine API    *)
(* (financial_engine_py/src/server.py): the /calculate pipeline            *)
(* (normalize, validate, compute, sanitize, respond), its error handlers,  *)
(* the OPTIONS and health routes and the CORS configuration.               *)
(*                                                                         *)
(* Python values are tagged records:                                       *)
(*   scalars  [k |-> <type>, x |-> <text of the value>]                    *)
(*   dict     [k |-> "dict", d |-> <function from string keys to values>]  *)
(*   list     [k |-> "list", l |-> <sequence of values>]                   *)
(* The type "other" stands for a scalar of a type that is neither          *)
(* dict, list, float, int, str, bool nor None (Decimal, datetime, ...):    *)
(* json.dumps raises TypeError on it and str() turns it into text.         *)
(***************************************************************************)
EXTENDS Integers, Sequences, FiniteSets, TLC

VARIABLES
    is_production,  \* server.py:21, read once from the environment
    stage,          \* position of the request in flight
    visited,        \* stages the request in flight has been through, in order
    method,         \* "POST", "OPTIONS" or "GET"
    origin,         \* the request's Origin header ("" when absent)
    body,           \* the request body
    clean_payload,  \* calculate: clean_payload
    validated,      \* FinancialInputs(**clean_payload) returned an object
    engineCalls,    \* calls of _engine.calculate for the request in flight
    result,         \* calculate: result (the engine's result object)
    exc,            \* the exception calculate's try block raised
    dumped,         \* calculate: dumped
    cleaned,        \* calculate: cleaned
    repeated,       \* the second clean_nan call (line 128) ran
    deep,           \* deep_clean (line 154) ran
    again,          \* the sanitizer applied to its own output
    response,       \* the response sent for the request in flight
    responses       \* number of responses sent for the request in flight

vars == << is_production, stage, visited, method, origin, body, clean_payload,
           validated, engineCalls, result, exc, dumped, cleaned, repeated,
           deep, again, response, responses >>

----------------------------------------------------------------------------
(* Python values *)

VNone == [k |-> "none", x |-> "None"]
VNaN == [k |-> "float", x |-> "nan"]
VInf == [k |-> "float", x |-> "inf"]
VNegInf == [k |-> "float", x |-> "-inf"]
VFloat == [k |-> "float", x |-> "0.125"]
VInt == [k |-> "int", x |-> "100"]
VBool == [k |-> "bool", x |-> "True"]
VStr(s) == [k |-> "str", x |-> s]
VOther == [k |-> "other", x |-> "Decimal('1.5')"]
VDict(f) == [k |-> "dict", d |-> f]
VList(s) == [k |-> "list", l |-> s]

\* math.isnan(obj) or math.isinf(obj), for a float
NonFinite(obj) == obj.x \in {"nan", "inf", "-inf"}

\* str(obj)
str(obj) == VStr(obj.x)

Range(seq) == { seq[i] : i \in 1..Len(seq) }

----------------------------------------------------------------------------
(* The result sanitizer, server.py:94-154 *)

RECURSIVE clean_nan_dropping(_)
\* A clean_nan with deep_clean's filter: entries that are None are dropped.
clean_nan_dropping(obj) ==
    IF obj.k = "dict"
    THEN VDict([key \in {c \in DOMAIN obj.d : obj.d[c] # VNone}
                    |-> clean_nan_dropping(obj.d[key])])
    ELSE IF obj.k = "list"
    THEN VList(LET keep == SelectSeq(obj.l, LAMBDA item : item # VNone)
               IN [i \in 1..Len(keep) |-> clean_nan_dropping(keep[i])])
    ELSE IF obj.k = "float"
    THEN IF NonFinite(obj) THEN VNone ELSE obj
    ELSE obj

\* A clean_nan that rebuilds a list without cleaning its items.
clean_nan_flat_lists(obj) ==
    IF obj.k = "dict"
    THEN VDict([key \in DOMAIN obj.d |->
                    IF obj.d[key].k = "float" /\ NonFinite(obj.d[key])
                    THEN VNone ELSE obj.d[key]])
    ELSE IF obj.k = "float"
    THEN IF NonFinite(obj) THEN VNone ELSE obj
    ELSE obj

\* A clean_nan that drops the non-finite entries of a list instead of
\* replacing them.
RECURSIVE clean_nan_shrinking(_)
clean_nan_shrinking(obj) ==
    IF obj.k = "dict"
    THEN VDict([key \in DOMAIN obj.d |-> clean_nan_shrinking(obj.d[key])])
    ELSE IF obj.k = "list"
    THEN VList(LET keep == SelectSeq(obj.l,
                              LAMBDA item : ~(item.k = "float" /\ NonFinite(item)))
               IN [i \in 1..Len(keep) |-> clean_nan_shrinking(keep[i])])
    ELSE IF obj.k = "float"
    THEN IF NonFinite(obj) THEN VNone ELSE obj
    ELSE obj

RECURSIVE clean_nan(_)
clean_nan(obj) ==
    IF obj.k = "dict"
    THEN VDict([key \in DOMAIN obj.d |-> clean_nan(obj.d[key])])
    ELSE IF obj.k = "list"
    THEN VList([i \in 1..Len(obj.l) |-> clean_nan(obj.l[i])])
    ELSE IF obj.k = "float"
    THEN IF NonFinite(obj) THEN VNone ELSE obj
    ELSE obj

RECURSIVE has_nan(_)
has_nan(obj) ==
    IF obj.k = "float" /\ NonFinite(obj) THEN TRUE
    ELSE IF obj.k = "dict"
    THEN \E key \in DOMAIN obj.d : has_nan(obj.d[key])
    ELSE IF obj.k = "list"
    THEN \E i \in 1..Len(obj.l) : has_nan(obj.l[i])
    ELSE FALSE

\* json.dumps(obj) returns, i.e. raises neither ValueError nor TypeError.
\* allow_nan is left at its default (True), so nan and inf are written out;
\* the only failure of a tree without cycles is a type with no encoder.
RECURSIVE json_dumps(_)
json_dumps(obj) ==
    IF obj.k = "dict"
    THEN \A key \in DOMAIN obj.d : json_dumps(obj.d[key])
    ELSE IF obj.k = "list"
    THEN \A i \in 1..Len(obj.l) : json_dumps(obj.l[i])
    ELSE obj.k \in {"int", "str", "bool", "float", "none"}

RECURSIVE deep_clean_keeping(_)
\* A deep_clean whose last branch returns the object instead of str(obj).
deep_clean_keeping(obj) ==
    IF obj.k = "dict"
    THEN VDict([key \in {c \in DOMAIN obj.d : obj.d[c] # VNone}
                    |-> deep_clean_keeping(obj.d[key])])
    ELSE IF obj.k = "list"
    THEN VList(LET keep == SelectSeq(obj.l, LAMBDA item : item # VNone)
               IN [i \in 1..Len(keep) |-> deep_clean_keeping(keep[i])])
    ELSE IF obj.k \in {"int", "str", "bool"}
    THEN obj
    ELSE IF obj.k = "float"
    THEN IF NonFinite(obj) THEN VNone ELSE obj
    ELSE obj

RECURSIVE deep_clean(_)
deep_clean(obj) ==
    IF obj.k = "dict"
    THEN VDict([key \in {c \in DOMAIN obj.d : obj.d[c] # VNone}
                    |-> deep_clean(obj.d[key])])
    ELSE IF obj.k = "list"
    THEN VList(LET keep == SelectSeq(obj.l, LAMBDA item : item # VNone)
               IN [i \in 1..Len(keep) |-> deep_clean(keep[i])])
    ELSE IF obj.k \in {"int", "str", "bool"}
    THEN obj
    ELSE IF obj.k = "float"
    THEN IF NonFinite(obj) THEN VNone ELSE obj
    ELSE IF obj.k = "none"
    THEN VNone
    ELSE str(obj)

\* Lines 123-154: primary pass, verification pass with the repeated pass,
\* json.dumps check with the deep_clean fallback.
Sanitize(tree) ==
    LET first == clean_nan(tree)
        rep == has_nan(first)
        second == IF rep THEN clean_nan(first) ELSE first
        fallback == ~json_dumps(second)
    IN [cleaned |-> IF fallback THEN deep_clean(second) ELSE second,
        repeated |-> rep,
        deep |-> fallback]

----------------------------------------------------------------------------
(* Requests *)

MaxLen == 2

OriginLocal == "http://localhost:3000"
OriginLoopback == "http://127.0.0.1:3000"
OriginVercel == "https://cotizador-voltaic.vercel.app"
OriginPreview == "https://cotizador-voltaic-git-dev.vercel.app"
OriginOther == "https://other.example"
NoOrigin == ""
Origins == {NoOrigin, OriginLocal, OriginVercel, OriginPreview, OriginOther}

\* JSON values a request body holds under each key: null, the string
\* "undefined", values of the field's type and of another type, and a list
\* with null and "undefined" inside.
PayloadKeys == {"kWp", "modo", "notes"}
PayloadValues(key) ==
    CASE key = "kWp" -> { VNone, VStr("undefined"), VInt, VStr("venta_total") }
      [] key = "modo" -> { VStr("undefined"), VStr("venta_total"), VInt }
      [] key = "notes" -> { VNone, VList(<< VNone, VStr("undefined") >>) }
Payloads ==
    UNION { { p \in [K -> UNION { PayloadValues(key) : key \in PayloadKeys }] :
                \A key \in K : p[key] \in PayloadValues(key) } :
            K \in SUBSET PayloadKeys }

NoPayload == << >>
ObjectBody(p) == [kind |-> "object", obj |-> p]
EmptyBody == [kind |-> "empty", obj |-> NoPayload]
MalformedBody == [kind |-> "malformed", obj |-> NoPayload]
\* calculate(payload: dict) runs on a body that is a JSON object; the other
\* routes declare no body and run on any.
Bodies(m) ==
    IF m = "POST" THEN { ObjectBody(p) : p \in Payloads }
    ELSE { EmptyBody, MalformedBody,
           ObjectBody(NoPayload), ObjectBody([modo |-> VStr("venta_total")]) }

----------------------------------------------------------------------------
(* CORS configuration, server.py:21-47 *)

allowed_origins ==
    IF is_production THEN {OriginVercel} ELSE {OriginLocal, OriginLoopback}

\* allow_origin_regex: r"https://.*\.vercel\.app$" in production, else None
allow_origin_regex(o) ==
    is_production /\ o \in {OriginVercel, OriginPreview}

is_allowed_origin(o) == o \in allowed_origins \/ allow_origin_regex(o)

\* The middleware as configured (allow_origins is a list without "*",
\* allow_credentials=False): a response to a request whose Origin is allowed
\* gets Access-Control-Allow-Origin set to that origin; any other response
\* passes with the headers the handler gave it.
CORSMiddleware(o, resp) ==
    IF o # NoOrigin /\ is_allowed_origin(o)
    THEN [resp EXCEPT !.acao = o]
    ELSE resp

----------------------------------------------------------------------------
(* Responses *)

NoHeader == ""
StatusOk == VDict([status |-> VStr("ok")])
NoResponse ==
    [status |-> 0, error |-> "", details |-> {}, shape |-> "",
     body |-> VNone, acao |-> NoHeader]

\* A route's return value, sent by the framework as a 200 JSON response.
Returned(value) ==
    [status |-> 200, error |-> "", details |-> {}, shape |-> "",
     body |-> value, acao |-> NoHeader]

\* JSONResponse(status_code=..., content={...}, headers={"Access-Control-Allow-Origin": "*"})
JSONResponse(status, error, shape, details) ==
    [status |-> status, error |-> error, details |-> details, shape |-> shape,
     body |-> VNone, acao |-> "*"]

NoExc == [type |-> "", errors |-> {}]

\* server.py:49-58. calculate catches every Exception its try block raises
\* and health and options_calculate raise none, so no step of a modelled
\* request hands an exception to this handler; it is the function from the
\* exception to the response the handler builds.
global_exception_handler(e) ==
    JSONResponse(500, "InternalError", "type", {})

\* The except clauses without the headers argument.
except_clauses_bare(e) ==
    [(IF e.type = "ValidationError"
      THEN JSONResponse(422, "ValidationError", "details", e.errors)
      ELSE JSONResponse(500, "InternalError", "traceback", {}))
     EXCEPT !.acao = NoHeader]

\* server.py:158-176: except ValidationError, then except Exception
except_clauses(e) ==
    IF e.type = "ValidationError"
    THEN JSONResponse(422, "ValidationError", "details", e.errors)
    ELSE JSONResponse(500, "InternalError", "traceback", {})

----------------------------------------------------------------------------
(* The collaborators of calculate: FinancialInputs and FinancialEngine *)

\* Payload normalization that also cleans inside the values it keeps.
normalize_nested(payload) ==
    [key \in {c \in DOMAIN payload :
                 payload[c] # VNone /\ payload[c] # VStr("undefined")}
        |-> IF payload[key].k = "list"
            THEN VList(SelectSeq(payload[key].l,
                         LAMBDA v : v # VNone /\ v # VStr("undefined")))
            ELSE payload[key]]

\* server.py:80
\* {k: v for k, v in payload.items() if v is not None and v != "undefined"}
normalize(payload) ==
    [key \in {c \in DOMAIN payload :
                 payload[c] # VNone /\ payload[c] # VStr("undefined")}
        |-> payload[key]]

RequiredFields == {"kWp"}

\* FinancialInputs(**data): the errors of the input schema, one entry per
\* invalid field; the object is built when there is none.
FinancialInputsErrors(data) ==
    { [loc |-> f, type |-> "missing"] : f \in RequiredFields \ DOMAIN data }
    \cup { [loc |-> f, type |-> "float_type"] :
             f \in {c \in DOMAIN data \cap {"kWp"} :
                      data[c].k \notin {"int", "float"}} }
    \cup { [loc |-> f, type |-> "string_type"] :
             f \in {c \in DOMAIN data \cap {"modo"} : data[c].k # "str"} }

NoTree == VDict(<< >>)
NoResult == [jsonOk |-> FALSE, json |-> NoTree, pyOk |-> FALSE, py |-> NoTree]

\* A result object: what model_dump(mode='json') and model_dump() do on it.
JsonResult(tree) == [jsonOk |-> TRUE, json |-> tree, pyOk |-> TRUE, py |-> tree]
PythonResult(tree) == [jsonOk |-> FALSE, json |-> NoTree, pyOk |-> TRUE, py |-> tree]

Kpis(van, tir) == VDict([van |-> van, tir |-> tir])

\* Result objects _engine.calculate returns in the request pipeline.
Results ==
    { JsonResult(VDict([kpis |-> Kpis(VFloat, VFloat), flows |-> VList(<< VInt, VFloat >>)])),
      JsonResult(VDict([kpis |-> Kpis(VFloat, VNaN), flows |-> VList(<< VInt, VInf >>)])),
      JsonResult(VDict([kpis |-> Kpis(VNegInf, VNone), flows |-> VList(<< >>)])),
      PythonResult(VDict([kpis |-> Kpis(VOther, VNaN), flows |-> VList(<< VNone, VInt >>)])),
      PythonResult(VDict([kpis |-> Kpis(VFloat, VNone), flows |-> VList(<< VBool >>)])),
      NoResult }

\* Exceptions _engine.calculate raises: a pydantic ValidationError while it
\* builds its result object, or any other Exception.
EngineErrors ==
    { [type |-> "ValidationError", errors |-> {[loc |-> "tir", type |-> "finite_number"]}],
      [type |-> "ZeroDivisionError", errors |-> {}] }

SerializationError == [type |-> "PydanticSerializationError", errors |-> {}]

----------------------------------------------------------------------------
(* Result trees for the sanitizer *)

Scalars == {VNaN, VInf, VNegInf, VFloat, VInt, VBool, VStr("venta_total"), VNone, VOther}
InnerScalars == {VNaN, VFloat, VNone, VOther}

ListsOf(S) == UNION { [1..n -> S] : n \in 0..MaxLen }

\* Values two levels below the top: scalars, lists and dicts of scalars.
Inner ==
    InnerScalars
    \cup { VList(s) : s \in ListsOf(InnerScalars) }
    \cup { VDict(f) : f \in UNION { [K -> InnerScalars] : K \in SUBSET {"tir"} } }

\* Values of the top-level dict.
Fields ==
    Scalars
    \cup { VList(s) : s \in ListsOf(Scalars) }
    \cup { VList(<< v >>) : v \in Inner }
    \cup { VDict(f) : f \in UNION { [K -> Inner] : K \in SUBSET {"van"} } }

\* model_dump() returns a dict.
Trees ==
    { VDict(f) : f \in [{"kpis"} -> Fields] }
    \cup { VDict(f) : f \in [{"kpis", "flows"} -> Inner] }
    \cup { NoTree }

----------------------------------------------------------------------------
(* The request pipeline *)

Init ==
    /\ is_production \in BOOLEAN
    /\ stage = "Idle"
    /\ visited = << >>
    /\ method = ""
    /\ origin = NoOrigin
    /\ body = EmptyBody
    /\ clean_payload = NoPayload
    /\ validated = FALSE
    /\ engineCalls = 0
    /\ result = NoResult
    /\ exc = NoExc
    /\ dumped = NoTree
    /\ cleaned = NoTree
    /\ repeated = FALSE
    /\ deep = FALSE
    /\ again = NoTree
    /\ response = NoResponse
    /\ responses = 0

\* What a step of the request in flight does to its position.
Goto(s) ==
    /\ stage' = s
    /\ visited' = Append(visited, s)

\* The response leaves through the CORS middleware.
Send(resp) ==
    /\ response' = CORSMiddleware(origin, resp)
    /\ responses' = responses + 1
    /\ Goto("Responded")

\* A request arrives; the one before it, if any, has been answered. The
\* locals of the handlers are fresh.
Receive ==
    /\ stage \in {"Idle", "Responded"}
    /\ \E m \in {"POST", "OPTIONS", "GET"} :
         /\ method' = m
         /\ body' \in Bodies(m)
    /\ origin' \in Origins
    /\ stage' = "Received"
    /\ visited' = << "Received" >>
    /\ clean_payload' = NoPayload
    /\ validated' = FALSE
    /\ engineCalls' = 0
    /\ result' = NoResult
    /\ exc' = NoExc
    /\ dumped' = NoTree
    /\ cleaned' = NoTree
    /\ repeated' = FALSE
    /\ deep' = FALSE
    /\ response' = NoResponse
    /\ responses' = 0
    /\ UNCHANGED << is_production, again >>

\* server.py:63-65
health ==
    /\ stage = "Received"
    /\ method = "GET"
    /\ Send(Returned(StatusOk))
    /\ UNCHANGED << is_production, method, origin, body, clean_payload, validated,
                    engineCalls, result, exc, dumped, cleaned, repeated, deep, again >>

\* An OPTIONS handler that takes the payload and validates it like calculate.
options_calculate_validating ==
    /\ stage = "Received"
    /\ method = "OPTIONS"
    /\ LET data == normalize(body.obj)
           errors == FinancialInputsErrors(data)
       IN /\ clean_payload' = data
          /\ IF body.kind = "object" /\ errors = {}
             THEN Send(Returned(StatusOk))
             ELSE Send(JSONResponse(422, "ValidationError", "details", errors))
    /\ UNCHANGED << is_production, method, origin, body, validated,
                    engineCalls, result, exc, dumped, cleaned, repeated, deep, again >>

\* server.py:68-71
options_calculate ==
    /\ stage = "Received"
    /\ method = "OPTIONS"
    /\ Send(Returned(StatusOk))
    /\ UNCHANGED << is_production, method, origin, body, clean_payload, validated,
                    engineCalls, result, exc, dumped, cleaned, repeated, deep, again >>

\* server.py:77-81
Normalize ==
    /\ stage = "Received"
    /\ method = "POST"
    /\ clean_payload' = normalize(body.obj)
    /\ Goto("Normalized")
    /\ UNCHANGED << is_production, method, origin, body, validated, engineCalls,
                    result, exc, dumped, cleaned, repeated, deep, again,
                    response, responses >>

\* A handler that hands the payload to the engine without building the inputs.
ValidateSkipped ==
    /\ stage = "Normalized"
    /\ validated' = TRUE
    /\ exc' = NoExc
    /\ Goto("Validated")
    /\ UNCHANGED << is_production, method, origin, body, clean_payload, engineCalls,
                    result, dumped, cleaned, repeated, deep, again,
                    response, responses >>

\* server.py:83-84: inputs = FinancialInputs(**clean_payload)
Validate ==
    /\ stage = "Normalized"
    /\ LET errors == FinancialInputsErrors(clean_payload)
       IN IF errors = {}
          THEN /\ validated' = TRUE
               /\ exc' = NoExc
               /\ Goto("Validated")
          ELSE /\ validated' = FALSE
               /\ exc' = [type |-> "ValidationError", errors |-> errors]
               /\ Goto("ValidationFailed")
    /\ UNCHANGED << is_production, method, origin, body, clean_payload, engineCalls,
                    result, dumped, cleaned, repeated, deep, again,
                    response, responses >>

\* server.py:86-87: result = _engine.calculate(inputs)
Compute ==
    /\ stage = "Validated"
    /\ engineCalls' = engineCalls + 1
    /\ \/ /\ result' \in Results
          /\ exc' = NoExc
          /\ Goto("Computed")
       \/ /\ exc' \in EngineErrors
          /\ result' = NoResult
          /\ Goto("ComputationFailed")
    /\ UNCHANGED << is_production, method, origin, body, clean_payload, validated,
                    dumped, cleaned, repeated, deep, again, response, responses >>

\* server.py:116-154: model_dump(mode='json'), model_dump() when that raises,
\* then the sanitizer. When both dumps raise, the exception reaches the
\* except clauses.
SanitizeResult ==
    /\ stage = "Computed"
    /\ IF result.jsonOk \/ result.pyOk
       THEN LET tree == IF result.jsonOk THEN result.json ELSE result.py
                san == Sanitize(tree)
            IN /\ dumped' = tree
               /\ cleaned' = san.cleaned
               /\ repeated' = san.repeated
               /\ deep' = san.deep
               /\ exc' = NoExc
               /\ Goto("Sanitized")
               /\ UNCHANGED << response, responses >>
       ELSE /\ exc' = SerializationError
            /\ Send(except_clauses(SerializationError))
            /\ UNCHANGED << dumped, cleaned, repeated, deep >>
    /\ UNCHANGED << is_production, method, origin, body, clean_payload, validated,
                    engineCalls, result, again >>

\* server.py:156: return cleaned
Respond ==
    /\ stage = "Sanitized"
    /\ Send(Returned(cleaned))
    /\ UNCHANGED << is_production, method, origin, body, clean_payload, validated,
                    engineCalls, result, exc, dumped, cleaned, repeated, deep, again >>

\* Except clauses that run the computation again when it failed.
ErrorResponderRetrying ==
    /\ stage \in {"ValidationFailed", "ComputationFailed"}
    /\ IF stage = "ComputationFailed"
       THEN /\ Goto("Validated")
            /\ UNCHANGED << response, responses >>
       ELSE Send(except_clauses(exc))
    /\ UNCHANGED << is_production, method, origin, body, clean_payload, validated,
                    engineCalls, result, exc, dumped, cleaned, repeated, deep, again >>

\* server.py:158-176: the except clauses of calculate
ErrorResponder ==
    /\ stage \in {"ValidationFailed", "ComputationFailed"}
    /\ Send(except_clauses(exc))
    /\ UNCHANGED << is_production, method, origin, body, clean_payload, validated,
                    engineCalls, result, exc, dumped, cleaned, repeated, deep, again >>

Next ==
    \/ Receive
    \/ health
    \/ options_calculate
    \/ Normalize
    \/ Validate
    \/ Compute
    \/ SanitizeResult
    \/ Respond
    \/ ErrorResponder

Spec == Init /\ [][Next]_vars

\* A request handler runs to completion on the event loop: every step of the
\* request in flight is taken. No fairness on Receive: requests may stop coming.
Handle ==
    \/ health
    \/ options_calculate
    \/ Normalize
    \/ Validate
    \/ Compute
    \/ SanitizeResult
    \/ Respond
    \/ ErrorResponder

FairSpec == Spec /\ WF_vars(Handle)

----------------------------------------------------------------------------
(* The sanitizer on every result tree *)

SanInit ==
    /\ is_production = FALSE
    /\ stage = "Dumped"
    /\ visited = << >>
    /\ method = ""
    /\ origin = NoOrigin
    /\ body = EmptyBody
    /\ clean_payload = NoPayload
    /\ validated = FALSE
    /\ engineCalls = 0
    /\ result = NoResult
    /\ exc = NoExc
    /\ dumped \in Trees
    /\ cleaned = NoTree
    /\ repeated = FALSE
    /\ deep = FALSE
    /\ again = NoTree
    /\ response = NoResponse
    /\ responses = 0

\* server.py:123-154 on the dumped tree
SanitizeTree ==
    /\ stage = "Dumped"
    /\ LET san == Sanitize(dumped)
       IN /\ cleaned' = san.cleaned
          /\ repeated' = san.repeated
          /\ deep' = san.deep
    /\ Goto("Sanitized")
    /\ UNCHANGED << is_production, method, origin, body, clean_payload,
                    validated, engineCalls, result, exc, dumped, again,
                    response, responses >>

\* The sanitizer on its own output.
Resanitize ==
    /\ stage = "Sanitized"
    /\ again' = Sanitize(cleaned).cleaned
    /\ stage' = "Resanitized"
    /\ UNCHANGED << is_production, visited, method, origin, body, clean_payload,
                    validated, engineCalls, result, exc, dumped, cleaned, repeated,
                    deep, response, responses >>

\* The tail of calculate from the dumped tree (sanitize, return), and the
\* sanitizer applied once more to what it produced.
SanNext ==
    \/ SanitizeTree
    \/ Respond
    \/ Resanitize

SanSpec == SanInit /\ [][SanNext]_vars

----------------------------------------------------------------------------
(* Properties *)

\* A value the response encoder accepts: no nan, inf or -inf and no value
\* of a type without a JSON encoding, at any depth.
RECURSIVE JsonSafe(_)
JsonSafe(obj) ==
    IF obj.k = "dict" THEN \A key \in DOMAIN obj.d : JsonSafe(obj.d[key])
    ELSE IF obj.k = "list" THEN \A i \in 1..Len(obj.l) : JsonSafe(obj.l[i])
    ELSE IF obj.k = "float" THEN ~NonFinite(obj)
    ELSE obj.k \in {"int", "str", "bool", "none"}

\* A tree of dicts, lists and int, str, bool, None and float scalars.
RECURSIVE JsonTyped(_)
JsonTyped(obj) ==
    IF obj.k = "dict" THEN \A key \in DOMAIN obj.d : JsonTyped(obj.d[key])
    ELSE IF obj.k = "list" THEN \A i \in 1..Len(obj.l) : JsonTyped(obj.l[i])
    ELSE obj.k \in {"int", "str", "bool", "none", "float"}

\* A value of type "other" occurs in the tree.
RECURSIVE HasOther(_)
HasOther(obj) ==
    IF obj.k = "dict" THEN \E key \in DOMAIN obj.d : HasOther(obj.d[key])
    ELSE IF obj.k = "list" THEN \E i \in 1..Len(obj.l) : HasOther(obj.l[i])
    ELSE obj.k = "other"

\* b has the shape of t: the same keys, the same lengths and order, None
\* where t holds a non-finite float and t's own scalar everywhere else.
RECURSIVE SameShape(_, _)
SameShape(t, b) ==
    IF t.k = "dict"
    THEN /\ b.k = "dict"
         /\ DOMAIN b.d = DOMAIN t.d
         /\ \A key \in DOMAIN t.d : SameShape(t.d[key], b.d[key])
    ELSE IF t.k = "list"
    THEN /\ b.k = "list"
         /\ Len(b.l) = Len(t.l)
         /\ \A i \in 1..Len(t.l) : SameShape(t.l[i], b.l[i])
    ELSE IF t.k = "float" /\ NonFinite(t)
    THEN b = VNone
    ELSE b = t

\* A non-finite float occurs in a list or dict below the top-level dict's
\* values.
NestedNaN(t) ==
    \E key \in DOMAIN t.d :
        /\ t.d[key].k \in {"dict", "list"}
        /\ has_nan(t.d[key])
        /\ IF t.d[key].k = "dict"
           THEN \E c \in DOMAIN t.d[key].d : t.d[key].d[c].k \in {"dict", "list"}
                                            /\ has_nan(t.d[key].d[c])
           ELSE \E i \in 1..Len(t.d[key].l) : t.d[key].l[i].k \in {"dict", "list"}
                                            /\ has_nan(t.d[key].l[i])

Sanitized == stage \in {"Sanitized", "Responded", "Resanitized"}

\* C1: whatever tree the sanitizer is given (non-finite floats at any depth
\* of dicts and lists, scalars of types clean_nan does not know), the tree
\* it produces, which is the body calculate returns, holds no non-finite
\* float and no value of a type without a JSON encoding.
C1_Encodable ==
    Sanitized =>
        /\ JsonSafe(cleaned)
        /\ stage = "Responded" => (response.status = 200 /\ JsonSafe(response.body))

C1_Witness ==
    /\ stage = "Responded"
    /\ response.body = cleaned
    /\ deep
    /\ HasOther(dumped)
    /\ NestedNaN(dumped)

\* C6: the sanitizer applied to its own output returns that output.
C6_Idempotent ==
    stage = "Resanitized" => again = cleaned

C6_Witness ==
    /\ stage = "Resanitized"
    /\ deep
    /\ has_nan(dumped)
    /\ cleaned # dumped
    /\ again = cleaned

\* C8: for a tree of dicts, lists and int, str, bool, None and float
\* scalars the request is answered 200 with a body of the same shape: the
\* same keys, the same lengths and order, None exactly where the tree holds
\* nan, inf or -inf, every other scalar (None included) as it was.
C8_SameShape ==
    (stage = "Responded" /\ JsonTyped(dumped)) =>
        /\ response.status = 200
        /\ ~deep
        /\ SameShape(dumped, response.body)

C8_Witness ==
    /\ stage = "Responded"
    /\ dumped = VDict([kpis |-> VList(<< VList(<< VNaN, VNone >>) >>)])
    /\ response.status = 200
    /\ response.body = VDict([kpis |-> VList(<< VList(<< VNone, VNone >>) >>)])

\* C10: the verification pass finds nothing after the primary pass, so the
\* second clean_nan call is never executed.
C10_NoRepeatedPass ==
    Sanitized => ~repeated /\ ~has_nan(cleaned)

C10_Witness ==
    /\ stage = "Sanitized"
    /\ NestedNaN(dumped)
    /\ ~repeated

Dropped(v) == v = VNone \/ v = VStr("undefined")

\* C7: the normalized payload maps no key to None or to "undefined" and
\* holds exactly the other pairs of the payload, values as they were, nested
\* None and "undefined" included; normalizing always succeeds.
C7_Normalization ==
    /\ (method = "POST" /\ Len(visited) >= 2) =>
           /\ visited[2] = "Normalized"
           /\ \A key \in DOMAIN clean_payload : ~Dropped(clean_payload[key])
           /\ DOMAIN clean_payload =
                  {key \in DOMAIN body.obj : ~Dropped(body.obj[key])}
           /\ \A key \in DOMAIN clean_payload : clean_payload[key] = body.obj[key]
    /\ (method = "POST" /\ stage = "Received") => ENABLED Normalize

C7_Witness ==
    /\ stage = "Normalized"
    /\ "kWp" \in DOMAIN body.obj /\ body.obj["kWp"] = VNone
    /\ "modo" \in DOMAIN body.obj /\ body.obj["modo"] = VStr("undefined")
    /\ DOMAIN clean_payload = {"notes"}
    /\ clean_payload["notes"] = VList(<< VNone, VStr("undefined") >>)

Missing == RequiredFields \ DOMAIN clean_payload

\* C3: a POST whose normalized payload lacks a required field is answered
\* 422 ValidationError with a details entry naming the field, and
\* _engine.calculate is not called for it; the engine is called only after
\* the inputs of the same request were built.
C3_ValidationGate ==
    /\ (method = "POST" /\ "Normalized" \in Range(visited) /\ Missing # {}) =>
           /\ engineCalls = 0
           /\ stage = "Responded" =>
                  /\ response.status = 422
                  /\ response.error = "ValidationError"
                  /\ \A f \in Missing : \E e \in response.details : e.loc = f
    /\ engineCalls > 0 =>
           /\ validated
           /\ FinancialInputsErrors(clean_payload) = {}
           /\ "Validated" \in Range(visited)

C3_Witness ==
    /\ method = "POST"
    /\ stage = "Responded"
    /\ Missing # {}
    /\ DOMAIN body.obj = {"kWp", "modo"}
    /\ response.status = 422
    /\ engineCalls = 0

\* C4: an exception raised by _engine.calculate, whatever its type, is
\* answered 500 InternalError.
C4_EngineFailureIsInternal ==
    (stage = "Responded" /\ "ComputationFailed" \in Range(visited)) =>
        /\ response.status = 500
        /\ response.error = "InternalError"

\* C2 as stated: every response to POST /calculate carries
\* Access-Control-Allow-Origin, whatever the request's Origin.
C2_HeaderOnEveryResponse ==
    (stage = "Responded" /\ method = "POST") => response.acao # NoHeader

\* C2: the 422 and 500 responses of calculate and the 500 response of
\* global_exception_handler carry Access-Control-Allow-Origin for every
\* Origin; the 200 response of POST /calculate carries it exactly when the
\* request has an Origin the CORS configuration allows.
C2_HeaderOnErrors ==
    /\ (stage = "Responded" /\ method = "POST") =>
           /\ response.status \in {422, 500} => response.acao # NoHeader
           /\ response.status = 200 =>
                  (response.acao # NoHeader
                      <=> (origin \in allowed_origins \/ allow_origin_regex(origin)))
    /\ \A e \in EngineErrors \cup {SerializationError} :
           CORSMiddleware(origin, global_exception_handler(e)).acao # NoHeader

C2_Witness ==
    /\ stage = "Responded"
    /\ method = "POST"
    /\ origin = OriginOther
    /\ response.status = 422
    /\ response.acao = "*"

Rank(s) ==
    CASE s = "Idle" -> 0
      [] s = "Received" -> 1
      [] s = "Normalized" -> 2
      [] s \in {"Validated", "ValidationFailed"} -> 3
      [] s \in {"Computed", "ComputationFailed"} -> 4
      [] s = "Sanitized" -> 5
      [] s = "Responded" -> 6

\* A step of the request in flight moves it to a later stage, and a failed
\* stage is followed by Responded; a new request starts at Received.
StageOrder ==
    stage' # stage =>
        \/ stage' = "Received" /\ stage \in {"Idle", "Responded"}
        \/ /\ stage' # "Received"
           /\ Rank(stage') > Rank(stage)
           /\ stage \in {"ValidationFailed", "ComputationFailed"} => stage' = "Responded"
           /\ stage' = "ValidationFailed" => stage = "Normalized"
           /\ stage' = "ComputationFailed" => stage = "Validated"
           /\ stage' = "Computed" => stage = "Validated"
           /\ stage' = "Sanitized" => stage = "Computed"
           /\ (method = "POST" /\ stage = "Received") => stage' = "Normalized"
           /\ stage = "Normalized" => stage' \in {"Validated", "ValidationFailed"}

\* C5: a POST /calculate moves forward through Received, Normalized,
\* Validated or ValidationFailed, Computed or ComputationFailed, Sanitized,
\* Responded, repeats no stage, goes from a failed stage straight to
\* Responded, and is always answered, once, with status 200, 422 or 500.
C5_Lifecycle ==
    /\ [][StageOrder]_vars
    /\ [](method = "POST" =>
            /\ stage = "Responded" =>
                   responses = 1 /\ response.status \in {200, 422, 500}
            /\ stage # "Responded" => responses = 0
            /\ \A i, j \in 1..Len(visited) : i < j => Rank(visited[i]) < Rank(visited[j]))
    /\ (method = "POST" /\ stage = "Received") ~> (stage = "Responded")

C5_Witness ==
    /\ method = "POST"
    /\ responses = 1
    /\ response.status = 200
    /\ visited = << "Received", "Normalized", "Validated", "Computed",
                    "Sanitized", "Responded" >>

====
